---------------------------- MODULE Spec2Model ----------------------------
(***************************************************************************)
(* A model of the particle transformation engine of AnimalMaker            *)
(* (src/src/animation_system.py): the Particle, the pixel samplers, the    *)
(* greedy assignment of create_particles and the AnimationManager.         *)
(*                                                                         *)
(* Real numbers are fixed-point integers with unit 1/One: progress,        *)
(* seconds (dt, duration, age), pixel coordinates, velocities and the      *)
(* random draws are all counted in that unit, so the float 1.0 is One.     *)
(* Pixel positions of samples and colour components are plain integers,    *)
(* as in the code.                                                         *)
(***************************************************************************)
EXTENDS Integers, Sequences, FiniteSets, TLC

VARIABLES
    particles,       \* AnimationManager.particles: sequence of Particle records
    animation_type,  \* AnimationManager.animation_type
    progress,        \* AnimationManager.progress (fixed-point)
    duration,        \* AnimationManager.duration (fixed-point seconds)
    is_animating,    \* AnimationManager.is_animating
    center_point,    \* AnimationManager.center_point (pixels)
    started,         \* history: start_animation has been called on this manager
    updates,         \* history: number of update calls since the last start_animation
    pc,              \* "idle" (manager driven by its caller), or "call"/"return" of a single method call
    call,            \* the last method call: its name and arguments
    ret,             \* what that call computed: locals and the raised exception, if any
    state            \* AnimalMaker.state (AppState) of the application that drives the manager

vars == <<particles, animation_type, progress, duration, is_animating,
          center_point, started, updates, pc, call, ret, state>>

manager == <<particles, animation_type, progress, duration, is_animating,
             center_point, started, updates>>

-----------------------------------------------------------------------------
(* Fixed-point arithmetic *)

\* The float 1.0
One == 10

Min(a, b) == IF a <= b THEN a ELSE b

Max(a, b) == IF a >= b THEN a ELSE b

Abs(a) == IF a >= 0 THEN a ELSE -a

\* Division rounding toward zero (b > 0)
TDiv(a, b) == IF a >= 0 THEN a \div b ELSE -((-a) \div b)

\* Product of two fixed-point numbers, a*b/One rounded toward zero; the
\* quotient of |a| by One is multiplied apart so that no intermediate value
\* is larger than the result.
FMul(a, b) ==
    LET x == Abs(a)
        y == Abs(b)
        m == (x \div One) * y + ((x % One) * y) \div One
    IN  IF (a < 0) = (b < 0) THEN m ELSE -m

\* Quotient of two fixed-point numbers (b > 0)
FDiv(a, b) == TDiv(a * One, b)

\* x times the decimal literal n/d
MulRat(x, n, d) == TDiv(x * n, d)

\* Python's int(x) on a float: truncation toward zero
PyInt(x) == TDiv(x, One)

\* Largest r with r*r <= x*One: the fixed-point square root
FSqrt(x) == CHOOSE r \in 0..(Max(x, One)) : r * r <= x * One /\ (r + 1) * (r + 1) > x * One

\* math.pi
Pi == (314 * One) \div 100

\* math.sin on [0, pi] by Bhaskara's rational approximation, extended by
\* sin(x + pi) = -sin(x) and the period 2*pi.
SinHalf(x) == TDiv(16 * x * (Pi - x) * One, 5 * Pi * Pi - 4 * x * (Pi - x))

Sin(x) ==
    LET m == x % (2 * Pi)
    IN  IF m <= Pi THEN SinHalf(m) ELSE -SinHalf(m - Pi)

\* math.cos(x) = sin(x + pi/2)
Cos(x) == Sin(x + Pi \div 2)

SeqSum(s) == IF Len(s) = 0 THEN 0 ELSE
    LET F[i \in 0..Len(s)] == IF i = 0 THEN 0 ELSE F[i - 1] + s[i]
    IN  F[Len(s)]

Range(s) == {s[i] : i \in 1..Len(s)}

-----------------------------------------------------------------------------
(* Bounds of the model *)

\* update calls modelled per run
MaxUpdates == 2

\* longest source / target list handed to create_particles on its own
MaxSrcLen == 2

MaxTgtLen == 3

\* longest source / target list of the "row of pixels" family
MaxRowSrc == 5

MaxRowTgt == 12

\* largest num_pixels handed to extract_pixels_for_shape on its own
MaxNum == 4

\* update calls modelled per run when the frame loop drives the run
MaxTicks == 4

\* largest |coordinate| and |velocity| a sand_fall integration step may reach
\* in the model (fixed-point)
MaxCoord == 1000000

-----------------------------------------------------------------------------
(* Animation types, colours, surfaces *)

AnimationType == {"sand_fall", "particle_swirl", "pixel_morph", "wave_transform"}

BLACK == <<0, 0, 0>>

WHITE == <<255, 255, 255>>

GREY == <<100, 100, 100>>

\* A pygame.Surface: width, height and what get_at returns for each pixel,
\* a colour of 3 components (no alpha channel) or 4 (alpha last).
Surface(w, h, at) == [width |-> w, height |-> h, at |-> at]

Pixels(w, h) == {<<x, y>> : x \in 0..(w - 1), y \in 0..(h - 1)}

SurfacesOf(w, h, colors) == {Surface(w, h, at) : at \in [Pixels(w, h) -> colors]}

\* range(0, n, step) as a sequence
RangeStep(n, step) == [k \in 1..((n + step - 1) \div step) |-> (k - 1) * step]

\* for y in range(0, height, step): for x in range(0, width, step)
ScanOrder(w, h, step) ==
    LET xs == RangeStep(w, step)
        ys == RangeStep(h, step)
    IN  [k \in 1..(Len(xs) * Len(ys)) |->
            <<xs[((k - 1) % Len(xs)) + 1], ys[((k - 1) \div Len(xs)) + 1]>>]

Sample(pos, color) == [pos |-> pos, color |-> color]

-----------------------------------------------------------------------------
(* Pixel sampler *)

\* surface.get_at((x, y))[:3]
RGB(color) == SubSeq(color, 1, 3)

\* extract_non_white_pixels: the kept pixels in scan order, with world positions
ExtractNonWhitePixels(surface, offset) ==
    LET step == Max(1, Min(surface.width, surface.height) \div 100)
        scan == ScanOrder(surface.width, surface.height, step)
        kept == SelectSeq(scan, LAMBDA p : SeqSum(RGB(surface.at[p])) < 700)
    IN  [k \in 1..Len(kept) |->
            Sample(<<offset[1] + kept[k][1], offset[2] + kept[k][2]>>,
                   RGB(surface.at[kept[k]]))]

\* The test of extract_pixels_for_shape on one get_at result
KeepsShapePixel(color) ==
    \/ Len(color) > 3 /\ color[4] > 128
    \/ Len(color) = 3 /\ SeqSum(color) < 700

\* all_pixels of extract_pixels_for_shape, before any padding
ShapeCandidates(surface, offset) ==
    LET scan == ScanOrder(surface.width, surface.height, 1)
        kept == SelectSeq(scan, LAMBDA p : KeepsShapePixel(surface.at[p]))
    IN  [k \in 1..Len(kept) |->
            Sample(<<offset[1] + kept[k][1], offset[2] + kept[k][2]>>,
                   IF Len(surface.at[kept[k]]) > 3
                   THEN RGB(surface.at[kept[k]]) ELSE surface.at[kept[k]])]

\* Faulty variant of StridedPrefix: s[::step] without the cut to n entries
StridedUncut(s, step, n) ==
    [k \in 1..((Len(s) + step - 1) \div step) |-> s[(k - 1) * step + 1]]

\* s[::step][:n]
StridedPrefix(s, step, n) ==
    LET strided == [k \in 1..((Len(s) + step - 1) \div step) |-> s[(k - 1) * step + 1]]
    IN  SubSeq(strided, 1, Min(n, Len(strided)))

\* Faulty variant of FillRemaining: the list is returned without the padding
FillRemainingNot(pixels, all_pixels, aliased, num_pixels) == {pixels}

\* The lists the padding loop can end with. In the branch that pads, pixels
\* and all_pixels are one list object, so random.choice draws from the list
\* as padded so far.
RECURSIVE FillRemaining(_, _, _, _)
FillRemaining(pixels, all_pixels, aliased, num_pixels) ==
    IF Len(pixels) < num_pixels /\ Len(all_pixels) > 0
    THEN UNION {FillRemaining(Append(pixels, all_pixels[i]),
                              IF aliased THEN Append(all_pixels, all_pixels[i]) ELSE all_pixels,
                              aliased, num_pixels) : i \in 1..Len(all_pixels)}
    ELSE {pixels}

\* extract_pixels_for_shape: the outcomes of one call. raised names the
\* exception that leaves the function (len(all_pixels) // 0), "none" otherwise.
ExtractPixelsForShape(surface, offset, num_pixels) ==
    LET all_pixels == ShapeCandidates(surface, offset)
    IN  IF Len(all_pixels) > num_pixels
        THEN IF num_pixels = 0
             THEN {[raised |-> "ZeroDivisionError", all_pixels |-> all_pixels, pixels |-> <<>>]}
             ELSE {[raised |-> "none", all_pixels |-> all_pixels, pixels |-> p] :
                     p \in FillRemaining(StridedPrefix(all_pixels, Len(all_pixels) \div num_pixels, num_pixels),
                                         all_pixels, FALSE, num_pixels)}
        ELSE {[raised |-> "none", all_pixels |-> all_pixels, pixels |-> p] :
                p \in FillRemaining(all_pixels, all_pixels, TRUE, num_pixels)}

-----------------------------------------------------------------------------
(* Assignment solver (create_particles) *)

\* Faulty variant of KeyLeq: every key passes, the list keeps the order given
KeyAny(a, b) == TRUE

\* key=lambda p: (p[0][1], p[0][0]) compared with <=
KeyLeq(a, b) == a.pos[2] < b.pos[2] \/ (a.pos[2] = b.pos[2] /\ a.pos[1] <= b.pos[1])

\* x placed behind every element whose key is not greater: sorted() is stable
InsertSorted(s, x) ==
    LET n == Cardinality({i \in 1..Len(s) : KeyLeq(s[i], x)})
    IN  SubSeq(s, 1, n) \o <<x>> \o SubSeq(s, n + 1, Len(s))

RECURSIVE SortedByYX(_)
SortedByYX(s) ==
    IF Len(s) = 0 THEN <<>>
    ELSE InsertSorted(SortedByYX(SubSeq(s, 1, Len(s) - 1)), s[Len(s)])

\* Faulty variant of ExtendTo: the whole list is appended each time round
RECURSIVE ExtendWhole(_, _)
ExtendWhole(source, t) ==
    IF Len(source) < t THEN ExtendWhole(source \o source, t) ELSE source

\* while len(source) < t: source.extend(source[:t - len(source)])
RECURSIVE ExtendTo(_, _)
ExtendTo(source, t) ==
    IF Len(source) < t
    THEN ExtendTo(source \o SubSeq(source, 1, Min(t - Len(source), Len(source))), t)
    ELSE source

\* The equalized source list for t target samples
Equalize(source, t) ==
    IF Len(source) > t THEN SubSeq(source, 1, t) ELSE ExtendTo(source, t)

Dist2(source_pos, target_pos) ==
    LET dx == source_pos[1] - target_pos[1]
        dy == source_pos[2] - target_pos[2]
    IN  dx * dx + dy * dy

\* Faulty variant of Closer: the last of several nearest targets wins
CloserOrEqual(distance, best_distance) == distance <= best_distance

\* if distance < best_distance
Closer(distance, best_distance) == distance < best_distance

\* Faulty variant of Skipped: used targets stay candidates
SkippedNever(i, used_targets) == FALSE

\* if i in used_targets: continue
Skipped(i, used_targets) == i \in used_targets

\* The inner loop from index i on, with best_target = best so far: the index
\* (from 1) of best_target in target_pixels_sorted, 0 for None. best_distance
\* starts at float('inf'), shown by idx = 0.
RECURSIVE BestFrom(_, _, _, _, _)
BestFrom(i, source_pos, targets, used_targets, best) ==
    IF i > Len(targets) THEN best.idx
    ELSE LET distance == Dist2(source_pos, targets[i].pos)
         IN  BestFrom(i + 1, source_pos, targets, used_targets,
                 IF Skipped(i, used_targets) THEN best
                 ELSE IF best.idx = 0 \/ Closer(distance, best.d)
                      THEN [idx |-> i, d |-> distance]
                      ELSE best)

BestTarget(source_pos, targets, used_targets) ==
    BestFrom(1, source_pos, targets, used_targets, [idx |-> 0, d |-> 0])

\* The fallback loop: the first index not in used_targets, 0 if there is none
FirstUnused(targets, used_targets) ==
    IF \E i \in 1..Len(targets) : i \notin used_targets
    THEN CHOOSE i \in 1..Len(targets) :
            i \notin used_targets /\ \A j \in 1..(i - 1) : j \in used_targets
    ELSE 0

\* The outer loop from source entry k on. Each assignment also records the
\* indices (from 1) of its source entry and of its target in target_pixels_sorted.
RECURSIVE AssignFrom(_, _, _, _, _)
AssignFrom(k, source, targets, used_targets, assignments) ==
    IF k > Len(source) THEN [used_targets |-> used_targets, assignments |-> assignments]
    ELSE LET best == BestTarget(source[k].pos, targets, used_targets)
             idx == IF best # 0 THEN best ELSE FirstUnused(targets, used_targets)
         IN  IF idx = 0
             THEN AssignFrom(k + 1, source, targets, used_targets, assignments)
             ELSE AssignFrom(k + 1, source, targets, used_targets \cup {idx},
                     Append(assignments,
                            [source_idx |-> k, target_idx |-> idx,
                             source_pos |-> source[k].pos, source_color |-> source[k].color,
                             target_pos |-> targets[idx].pos, target_color |-> targets[idx].color]))

\* create_particles up to the assignments: its locals at that point
Assign(source_pixels, target_pixels) ==
    LET target_pixels_sorted == SortedByYX(target_pixels)
        equalized == Equalize(source_pixels, Len(target_pixels_sorted))
        done == AssignFrom(1, equalized, target_pixels_sorted, {}, <<>>)
    IN  [source_pixels |-> equalized,
         target_pixels_sorted |-> target_pixels_sorted,
         used_targets |-> done.used_targets,
         assignments |-> done.assignments]

-----------------------------------------------------------------------------
(* Particle *)

\* self.gravity
Gravity == 150 * One

\* The draws of random.uniform / random.random / random.randint that make one
\* particle: the jitter and size of create_particles, then those of
\* Particle.__init__. Two representative draws: a small particle with no
\* delay, and a large one with the longest delay.
RandomDraws ==
    { [jitter_x |-> -(One \div 2), jitter_y |-> 0, size |-> 2,
       angle |-> 0, speed |-> 40 * One,
       wobble_frequency |-> One \div 2, wobble_amplitude |-> 2 * One, fall_delay |-> 0],
      [jitter_x |-> -(3 * One) \div 2, jitter_y |-> 2 * One, size |-> 4,
       angle |-> Pi \div 2, speed |-> 80 * One,
       wobble_frequency |-> (3 * One) \div 2, wobble_amplitude |-> 8 * One,
       fall_delay |-> (4 * One) \div 10] }

\* Particle.__init__ on one assignment
NewParticle(a, rnd) ==
    [start_x |-> a.source_pos[1] * One + rnd.jitter_x,
     start_y |-> a.source_pos[2] * One + rnd.jitter_y,
     target_x |-> a.target_pos[1] * One,
     target_y |-> a.target_pos[2] * One,
     current_x |-> a.source_pos[1] * One + rnd.jitter_x,
     current_y |-> a.source_pos[2] * One + rnd.jitter_y,
     source_color |-> a.source_color,
     target_color |-> a.target_color,
     color |-> a.source_color,
     size |-> rnd.size,
     velocity_x |-> FMul(Cos(rnd.angle), rnd.speed),
     velocity_y |-> MulRat(FMul(Sin(rnd.angle), rnd.speed), 4, 10),
     age |-> 0,
     wobble_frequency |-> rnd.wobble_frequency,
     wobble_amplitude |-> rnd.wobble_amplitude,
     fall_delay |-> rnd.fall_delay]

\* Faulty variant of Blend: the factor is progress - fall_delay, not divided
\* by 1 - fall_delay
BlendUnscaled(source_color, target_color, num, den) ==
    [c \in 1..3 |-> TDiv(source_color[c] * (One - num) + target_color[c] * num, One)]

\* int(source[c] * (1 - t) + target[c] * t) per component, for t = num/den
Blend(source_color, target_color, num, den) ==
    [c \in 1..3 |-> TDiv(source_color[c] * (den - num) + target_color[c] * num, den)]

\* min(1.0, max(0.0, x)) for x = num/den: the clamped numerator
ClampNum(num, den) == Min(den, Max(0, num))

\* max(1e-6, 1.0 - fall_delay): 1e-6 is below the fixed-point unit, so the
\* floor shows as dividing by 1/1000000 when 1.0 - fall_delay is not positive.
DelayQuotient(progress_, fall_delay) ==
    IF One - fall_delay > 0
    THEN FDiv(progress_ - fall_delay, One - fall_delay)
    ELSE (progress_ - fall_delay) * 1000000

\* min(1.0, max(0.0, (progress - fall_delay) / max(1e-6, 1.0 - fall_delay))) as
\* the fraction num / den; with the floor 1e-6 as divisor the quotient is
\* (progress - fall_delay) * 1000000
BlendFactor(progress_, fall_delay) ==
    IF One - fall_delay > 0
    THEN [num |-> ClampNum(progress_ - fall_delay, One - fall_delay),
          den |-> One - fall_delay]
    ELSE [num |-> ClampNum((progress_ - fall_delay) * 1000000, One), den |-> One]

\* update_sand_fall: velocity and position after the integration step,
\* before the attraction
SandFallIntegrate(p, progress_, dt) ==
    IF progress_ < p.fall_delay
    THEN LET vy == p.velocity_y + FMul(Gravity, dt)
             wobble == FMul(Sin(FMul(p.age, p.wobble_frequency)), p.wobble_amplitude)
             vx == MulRat(p.velocity_x, 95, 100) + FMul(wobble, dt)
         IN  [velocity_x |-> vx, velocity_y |-> vy,
              current_x |-> p.current_x + FMul(vx, dt),
              current_y |-> p.current_y + FMul(vy, dt)]
    ELSE LET vy == p.velocity_y + FMul(MulRat(Gravity, 35, 100), dt)
             vx == MulRat(p.velocity_x, 95, 100)
         IN  [velocity_x |-> vx, velocity_y |-> vy,
              current_x |-> p.current_x + FMul(vx, dt),
              current_y |-> p.current_y + FMul(vy, dt)]

UpdateSandFall(p, progress_, dt) ==
    LET i == SandFallIntegrate(p, progress_, dt)
    IN  IF progress_ < p.fall_delay
        THEN [p EXCEPT !.velocity_x = i.velocity_x, !.velocity_y = i.velocity_y,
                       !.current_x = i.current_x, !.current_y = i.current_y,
                       !.age = p.age + dt]
        ELSE LET adjusted_progress == DelayQuotient(progress_, p.fall_delay)
                 attraction_strength ==
                     Min(4 * One, 3 * FMul(adjusted_progress, FSqrt(adjusted_progress)))
                 pull == FMul(attraction_strength, dt)
                 t == BlendFactor(progress_, p.fall_delay)
             IN  [p EXCEPT !.velocity_x = i.velocity_x, !.velocity_y = i.velocity_y,
                           !.current_x = FMul(i.current_x, One - pull) + FMul(p.target_x, pull),
                           !.current_y = FMul(i.current_y, One - pull) + FMul(p.target_y, pull),
                           !.color = Blend(p.source_color, p.target_color, t.num, t.den),
                           !.age = p.age + dt]

\* Faulty variant of UpdateParticleSwirl: the weights of the spiral point and
\* of the target are exchanged
UpdateParticleSwirlExchanged(p, progress_, dt, center) ==
    LET angle == 2 * p.age + FMul(progress_, 4 * Pi)
        radius == 50 * (One - progress_)
        spiral_x == center[1] * One + FMul(Cos(angle), radius)
        spiral_y == center[2] * One + FMul(Sin(angle), radius)
    IN  [p EXCEPT !.current_x = FMul(spiral_x, progress_) + FMul(p.target_x, One - progress_),
                  !.current_y = FMul(spiral_y, progress_) + FMul(p.target_y, One - progress_),
                  !.age = p.age + dt]

UpdateParticleSwirl(p, progress_, dt, center) ==
    LET angle == 2 * p.age + FMul(progress_, 4 * Pi)
        radius == 50 * (One - progress_)
        spiral_x == center[1] * One + FMul(Cos(angle), radius)
        spiral_y == center[2] * One + FMul(Sin(angle), radius)
    IN  [p EXCEPT !.current_x = FMul(spiral_x, One - progress_) + FMul(p.target_x, progress_),
                  !.current_y = FMul(spiral_y, One - progress_) + FMul(p.target_y, progress_),
                  !.age = p.age + dt]

\* Faulty variant of UpdatePixelMorph: the interpolation restarts from the
\* position reached, which it stores as the start position
UpdatePixelMorphRebased(p, progress_, dt) ==
    LET eased_progress == One - FMul(One - progress_, One - progress_)
    IN  [p EXCEPT !.current_x = FMul(p.current_x, One - eased_progress) + FMul(p.target_x, eased_progress),
                  !.current_y = FMul(p.current_y, One - eased_progress) + FMul(p.target_y, eased_progress),
                  !.start_x = p.current_x,
                  !.start_y = p.current_y,
                  !.age = p.age + dt]

UpdatePixelMorph(p, progress_, dt) ==
    LET eased_progress == One - FMul(One - progress_, One - progress_)
    IN  [p EXCEPT !.current_x = FMul(p.start_x, One - eased_progress) + FMul(p.target_x, eased_progress),
                  !.current_y = FMul(p.start_y, One - eased_progress) + FMul(p.target_y, eased_progress),
                  !.age = p.age + dt]

\* Faulty variant of UpdateWaveTransform: the wave offset is not scaled by
\* 1 - progress
UpdateWaveTransformUnscaled(p, progress_, dt) ==
    LET wave_offset == 20 * Sin(FMul(progress_, 2 * Pi) + MulRat(p.start_x, 1, 10))
        eased_progress == FMul(FMul(progress_, progress_), 3 * One - 2 * progress_)
    IN  [p EXCEPT !.current_x = FMul(p.start_x, One - eased_progress) + FMul(p.target_x, eased_progress),
                  !.current_y = FMul(p.start_y, One - eased_progress) + FMul(p.target_y, eased_progress)
                                + wave_offset,
                  !.age = p.age + dt]

UpdateWaveTransform(p, progress_, dt) ==
    LET wave_offset ==
            FMul(20 * Sin(FMul(progress_, 2 * Pi) + MulRat(p.start_x, 1, 10)), One - progress_)
        eased_progress == FMul(FMul(progress_, progress_), 3 * One - 2 * progress_)
    IN  [p EXCEPT !.current_x = FMul(p.start_x, One - eased_progress) + FMul(p.target_x, eased_progress),
                  !.current_y = FMul(p.start_y, One - eased_progress) + FMul(p.target_y, eased_progress)
                                + wave_offset,
                  !.age = p.age + dt]

\* The dispatch on animation_type in AnimationManager.update
Dispatch(p, type, progress_, dt, center) ==
    CASE type = "sand_fall" -> UpdateSandFall(p, progress_, dt)
      [] type = "particle_swirl" -> UpdateParticleSwirl(p, progress_, dt, center)
      [] type = "pixel_morph" -> UpdatePixelMorph(p, progress_, dt)
      [] type = "wave_transform" -> UpdateWaveTransform(p, progress_, dt)

\* Faulty variant of GlobalBlend: update leaves the colour to the type's own update
GlobalBlendSkipped(p, progress_) == p

\* The global colour blend that follows the dispatch
GlobalBlend(p, progress_) ==
    LET blend_factor == BlendFactor(progress_, p.fall_delay)
    IN  IF blend_factor.num > 0
        THEN [p EXCEPT !.color = Blend(p.source_color, p.target_color,
                                       blend_factor.num, blend_factor.den)]
        ELSE p

\* One iteration of the loop over self.particles
UpdateParticle(p, type, progress_, dt, center) ==
    GlobalBlend(Dispatch(p, type, progress_, dt, center), progress_)

\* Faulty variant of PixelOf: rounds down
PixelOfFloor(current) == current \div One

\* int(self.current_x), int(self.current_y)
PixelOf(current) == PyInt(current)

\* Particle.draw on a surface of the given size: whether the particle is
\* drawn, the pixel (x, y), the alpha computed from the distance to the
\* target, the call that writes ("set_at" for size <= 2, else "blit" of a
\* circle of radius size) and the pixels of the surface it can write
DrawParticle(p, width, height) ==
    LET x == PixelOf(p.current_x)
        y == PixelOf(p.current_y)
        dx == p.target_x - p.current_x
        dy == p.target_y - p.current_y
        dist == FSqrt((dx * dx + dy * dy) \div One)
        alpha == PyInt(Max(40 * One, Min(255 * One, 255 * One - MulRat(dist, 8, 10))))
    IN  IF 0 <= x /\ x < width /\ 0 <= y /\ y < height
        THEN [drawn |-> TRUE, at |-> <<x, y>>, alpha |-> alpha,
              by |-> IF p.size <= 2 THEN "set_at" ELSE "blit",
              written |-> IF p.size <= 2 THEN {<<x, y>>}
                          ELSE {q \in Pixels(width, height) :
                                   /\ x - p.size <= q[1] /\ q[1] < x + p.size
                                   /\ y - p.size <= q[2] /\ q[2] < y + p.size}]
        ELSE [drawn |-> FALSE, at |-> <<x, y>>, alpha |-> 0, by |-> "none", written |-> {}]

WithinCoord(p) ==
    /\ Abs(p.current_x) <= MaxCoord
    /\ Abs(p.current_y) <= MaxCoord
    /\ Abs(p.velocity_x) <= MaxCoord
    /\ Abs(p.velocity_y) <= MaxCoord

\* The model follows a sand_fall particle while its integration step stays
\* within MaxCoord (the attraction then multiplies by at most 4 * dt)
Followed(p, type, progress_, dt) ==
    type = "sand_fall" => WithinCoord(SandFallIntegrate(p, progress_, dt))

-----------------------------------------------------------------------------
(* AnimationManager *)

\* Faulty variant of Cleared: the particles of the previous run are kept
ClearedNot(ps) == ps

\* self.particles.clear()
Cleared(ps) == <<>>

\* create_particles: the particles it appends to self.particles. rnd[k] are
\* the random draws of the k-th particle created.
CreateParticles(source_pixels, target_pixels, rnd) ==
    IF Len(source_pixels) = 0 \/ Len(target_pixels) = 0 THEN <<>>
    ELSE LET assignments == Assign(source_pixels, target_pixels).assignments
         IN  [k \in 1..Len(assignments) |-> NewParticle(assignments[k], rnd[k])]

\* The number of particles create_particles constructs
Created(source_pixels, target_pixels) ==
    IF Len(source_pixels) = 0 \/ Len(target_pixels) = 0 THEN 0
    ELSE Len(Assign(source_pixels, target_pixels).assignments)

\* self.progress += dt / self.duration
Advance(progress_, dt, duration_) == progress_ + FDiv(dt, duration_)

\* Faulty variant of ReachedEnd: the clamp misses progress landing on 1.0 exactly
ReachedEndStrict(progress_) == progress_ > One

\* if self.progress >= 1.0
ReachedEnd(progress_) == progress_ >= One

\* Faulty variant of Clamped: progress is left past 1.0
ClampedNot(advanced, ended) == advanced

\* self.progress after "if self.progress >= 1.0: self.progress = 1.0"
Clamped(advanced, ended) == IF ended THEN One ELSE advanced

\* Faulty variant of StillAnimating: the clamp leaves is_animating set
StillAnimatingAlways(ended) == TRUE

\* self.is_animating after the clamp
StillAnimating(ended) == ~ended

\* Faulty variant of ReturnsAtOnce: update has no early return
ReturnsNever(animating) == FALSE

\* if not self.is_animating: return
ReturnsAtOnce(animating) == ~animating

\* Inputs of the model
DtValues == {-10 * One, 10 * One, 30 * One}

Durations == {25 * One, 20 * One}

OPAQUE_GREY == <<100, 100, 100, 255>>

OPAQUE_WHITE == <<255, 255, 255, 255>>

OPAQUE_BLACK == <<0, 0, 0, 255>>

TRANSPARENT == <<0, 0, 0, 0>>

\* Drawing surfaces of 2 x 1 pixels: white canvas, black ink from the left
SourceSurfaces ==
    {s \in SurfacesOf(2, 1, {OPAQUE_BLACK, OPAQUE_WHITE}) :
        s.at[<<0, 0>>] = OPAQUE_WHITE => s.at[<<1, 0>>] = OPAQUE_WHITE}

\* Target images of 2 x 1 pixels with an alpha channel, opaque from the left
TargetSurfaces ==
    {s \in SurfacesOf(2, 1, {OPAQUE_GREY, TRANSPARENT}) :
        s.at[<<0, 0>>] = TRANSPARENT => s.at[<<1, 0>>] = TRANSPARENT}

SourceOffsets == {<<0, 0>>}

TargetOffsets == {<<2, 1>>}

\* start_animation from the sampling on: what it computes from its surfaces
\* and offsets, for every outcome of its random draws: the particles appended
\* by create_particles, the centre point, the locals and the exception that
\* leaves it, if one does (then no particle is created).
Sampled(source_surface, target_surface, source_offset, target_offset) ==
    LET source_pixels == ExtractNonWhitePixels(source_surface, source_offset)
        center == <<source_offset[1] + source_surface.width \div 2,
                    source_offset[2] + source_surface.height \div 2>>
    IN  UNION { { [center_point |-> center,
                   raised |-> ex.raised,
                   source_pixels |-> source_pixels,
                   all_pixels |-> ex.all_pixels,
                   target_pixels |-> ex.pixels,
                   appended |-> IF ex.raised # "none" THEN <<>>
                                ELSE CreateParticles(source_pixels, ex.pixels, rnd)] :
                  rnd \in [1..(IF ex.raised # "none" THEN 0
                               ELSE Created(source_pixels, ex.pixels)) -> RandomDraws] } :
                ex \in ExtractPixelsForShape(target_surface, target_offset, Len(source_pixels)) }

\* Sampled over the surfaces and offsets of the model
StartOutcomes ==
    UNION { Sampled(ss, ts, so, to) :
              ss \in SourceSurfaces, ts \in TargetSurfaces,
              so \in SourceOffsets, to \in TargetOffsets }

Init ==
    /\ particles = <<>>
    /\ animation_type = "wave_transform"
    /\ progress = 0
    /\ duration = 25 * One
    /\ is_animating = FALSE
    /\ center_point = <<0, 0>>
    /\ started = FALSE
    /\ updates = 0
    /\ pc = "idle"
    /\ call = [op |-> "__init__"]
    /\ ret = [raised |-> "none"]
    /\ state = "drawing"

\* start_animation with the given type, taking the outcome o of its sampling
StartAnimationCall(type, o) ==
    /\ pc = "idle"
    /\ particles' = Cleared(particles) \o o.appended
    /\ animation_type' = type
    /\ progress' = 0
    /\ is_animating' = TRUE
    /\ center_point' = o.center_point
    /\ started' = TRUE
    /\ updates' = 0
    /\ UNCHANGED <<duration, pc>>
    /\ call' = [op |-> "start_animation", animation_type |-> type,
                in_flight |-> is_animating /\ Len(particles) > 0]
    /\ ret' = [raised |-> o.raised, source_pixels |-> o.source_pixels,
               all_pixels |-> o.all_pixels, target_pixels |-> o.target_pixels,
               created |-> Len(o.appended)]

\* start_animation called on the manager by itself
StartAnimation(type, o) ==
    /\ StartAnimationCall(type, o)
    /\ UNCHANGED state

\* update(dt), however many updates the run has had
UpdateCall(dt) ==
    /\ pc = "idle"
    /\ call' = [op |-> "update", dt |-> dt, was_animating |-> is_animating]
    /\ ret' = [raised |-> "none"]
    /\ IF ReturnsAtOnce(is_animating)
       THEN UNCHANGED manager
       ELSE LET advanced == Advance(progress, dt, duration)
                ended == ReachedEnd(advanced)
                now == Clamped(advanced, ended)
            IN  /\ \A i \in 1..Len(particles) :
                      Followed(particles[i], animation_type, now, dt)
                /\ progress' = now
                /\ is_animating' = StillAnimating(ended)
                /\ particles' = [i \in 1..Len(particles) |->
                      UpdateParticle(particles[i], animation_type, now, dt, center_point)]
                /\ updates' = updates + 1
                /\ UNCHANGED <<animation_type, duration, center_point, started>>
    /\ UNCHANGED pc

\* update(dt) within the MaxUpdates effective updates modelled per run
Update(dt) ==
    /\ is_animating => updates < MaxUpdates
    /\ UpdateCall(dt)
    /\ UNCHANGED state

SetAnimationType(type) ==
    /\ pc = "idle"
    /\ animation_type' = type
    /\ call' = [op |-> "set_animation_type", animation_type |-> type]
    /\ ret' = [raised |-> "none"]
    /\ UNCHANGED <<particles, progress, duration, is_animating, center_point,
                   started, updates, pc, state>>

SetDuration(d) ==
    /\ pc = "idle"
    /\ duration' = d
    /\ call' = [op |-> "set_duration", duration |-> d]
    /\ ret' = [raised |-> "none"]
    /\ UNCHANGED <<particles, animation_type, progress, is_animating, center_point,
                   started, updates, pc, state>>

\* is_finished()
is_finished == ~is_animating

Next ==
    \/ \E type \in AnimationType, o \in StartOutcomes : StartAnimation(type, o)
    \/ \E dt \in DtValues : Update(dt)
    \/ \E type \in AnimationType : SetAnimationType(type)
    \/ \E d \in Durations : SetDuration(d)

Spec == Init /\ [][Next]_vars

-----------------------------------------------------------------------------
(* create_particles called on its own, on a freshly constructed manager *)

SeqsUpTo(S, n) == UNION {[1..k -> S] : k \in 0..n}

\* Samples on a 2 x 2 grid; two of them share a position
GridSamples ==
    { Sample(<<0, 0>>, BLACK), Sample(<<1, 0>>, BLACK),
      Sample(<<1, 1>>, BLACK), Sample(<<0, 0>>, GREY) }

\* n source samples along the row y = 0, in scan order
SourceRow(n) == [i \in 1..n |-> Sample(<<i - 1, 0>>, BLACK)]

\* n target samples along the row y = 3, listed from right to left
TargetRow(n) == [i \in 1..n |-> Sample(<<n - i, 3>>, GREY)]

\* The (source_pixels, target_pixels) pairs create_particles is called with
AssignInputs ==
    (SeqsUpTo(GridSamples, MaxSrcLen) \X SeqsUpTo(GridSamples, MaxTgtLen))
    \cup {<<SourceRow(s), TargetRow(t)>> : s \in 1..MaxRowSrc, t \in 1..MaxRowTgt}

InitAssign ==
    /\ particles = <<>>
    /\ animation_type = "wave_transform"
    /\ progress = 0
    /\ duration = 25 * One
    /\ is_animating = FALSE
    /\ center_point = <<0, 0>>
    /\ started = FALSE
    /\ updates = 0
    /\ pc = "call"
    /\ \E in \in AssignInputs :
          call = [op |-> "create_particles", source_pixels |-> in[1], target_pixels |-> in[2]]
    /\ ret = [raised |-> "none"]
    /\ state = "drawing"

\* One call of create_particles; every particle gets the same random draws
CreateParticlesCall ==
    /\ pc = "call"
    /\ call.op = "create_particles"
    /\ \E r \in RandomDraws :
          particles' = particles \o
              CreateParticles(call.source_pixels, call.target_pixels,
                  [k \in 1..Created(call.source_pixels, call.target_pixels) |-> r])
    /\ ret' = IF Len(call.source_pixels) = 0 \/ Len(call.target_pixels) = 0
              THEN [raised |-> "none", returned_early |-> TRUE,
                    source_pixels |-> call.source_pixels, target_pixels_sorted |-> <<>>,
                    used_targets |-> {}, assignments |-> <<>>]
              ELSE LET a == Assign(call.source_pixels, call.target_pixels)
                   IN  [raised |-> "none", returned_early |-> FALSE,
                        source_pixels |-> a.source_pixels,
                        target_pixels_sorted |-> a.target_pixels_sorted,
                        used_targets |-> a.used_targets, assignments |-> a.assignments]
    /\ pc' = "return"
    /\ UNCHANGED <<animation_type, progress, duration, is_animating, center_point,
                   started, updates, call, state>>

NextAssign == CreateParticlesCall

SpecAssign == InitAssign /\ [][NextAssign]_vars

-----------------------------------------------------------------------------
(* extract_pixels_for_shape called on its own *)

\* A pixel at the alpha threshold of extract_pixels_for_shape
HALF_GREY == <<100, 100, 100, 128>>

\* Target images with an alpha channel: 3 x 2 opaque or transparent, 2 x 1
\* around the alpha threshold
ShapeSurfaces ==
    SurfacesOf(3, 2, {OPAQUE_GREY, TRANSPARENT})
        \cup SurfacesOf(2, 1, {OPAQUE_WHITE, HALF_GREY, TRANSPARENT})

\* Target images without an alpha channel, 2 x 1, black and white as the
\* dithered silhouette: pygame's get_at returns (r, g, b, 255) on them
ShapeSurfacesNoAlpha == SurfacesOf(2, 1, {OPAQUE_BLACK, OPAQUE_WHITE})

\* The target images with what is known of their alpha channel
ShapeInputs ==
    {[surface |-> sf, alpha_channel |-> TRUE] : sf \in ShapeSurfaces}
        \cup {[surface |-> sf, alpha_channel |-> FALSE] : sf \in ShapeSurfacesNoAlpha}

InitExtract ==
    /\ particles = <<>>
    /\ animation_type = "wave_transform"
    /\ progress = 0
    /\ duration = 25 * One
    /\ is_animating = FALSE
    /\ center_point = <<0, 0>>
    /\ started = FALSE
    /\ updates = 0
    /\ pc = "call"
    /\ \E in \in ShapeInputs, offset \in TargetOffsets, num_pixels \in 0..MaxNum :
          call = [op |-> "extract_pixels_for_shape", surface |-> in.surface,
                  alpha_channel |-> in.alpha_channel,
                  offset |-> offset, num_pixels |-> num_pixels]
    /\ ret = [raised |-> "none"]
    /\ state = "drawing"

\* One call of extract_pixels_for_shape: ret.pixels is the list returned
ExtractCall ==
    /\ pc = "call"
    /\ call.op = "extract_pixels_for_shape"
    /\ ret' \in ExtractPixelsForShape(call.surface, call.offset, call.num_pixels)
    /\ pc' = "return"
    /\ UNCHANGED <<manager, call, state>>

NextExtract == ExtractCall

SpecExtract == InitExtract /\ [][NextExtract]_vars

-----------------------------------------------------------------------------
(* A pixel_morph run end to end on 2 x 2 surfaces, durations set by set_duration *)

\* Drawing surfaces of 2 x 2 pixels: the first k pixels in scan order are ink
MorphSourceSurfaces ==
    {s \in SurfacesOf(2, 2, {OPAQUE_BLACK, OPAQUE_WHITE}) :
        /\ s.at[<<0, 0>>] = OPAQUE_WHITE => s.at[<<1, 0>>] = OPAQUE_WHITE
        /\ s.at[<<1, 0>>] = OPAQUE_WHITE => s.at[<<0, 1>>] = OPAQUE_WHITE
        /\ s.at[<<0, 1>>] = OPAQUE_WHITE => s.at[<<1, 1>>] = OPAQUE_WHITE}

\* Target images of 2 x 2 pixels with an alpha channel
MorphTargetSurfaces == SurfacesOf(2, 2, {OPAQUE_GREY, TRANSPARENT})

\* What start_animation computes on these surfaces; the particles of one
\* start share their random draws
MorphOutcomes ==
    {o \in UNION { Sampled(ss, ts, so, to) :
                      ss \in MorphSourceSurfaces, ts \in MorphTargetSurfaces,
                      so \in SourceOffsets, to \in TargetOffsets } :
        \A i, j \in 1..Len(o.appended) :
            /\ o.appended[i].size = o.appended[j].size
            /\ o.appended[i].fall_delay = o.appended[j].fall_delay}

\* dt of 0.5 s, 1 s and 25 s
MorphDts == {One \div 2, One, 25 * One}

\* duration of 1 s
MorphDurations == {One}

\* update(dt) for the dt whose quotient by the duration is a whole number of
\* fixed-point units
MorphUpdate(dt) ==
    /\ (dt * One) % duration = 0
    /\ Update(dt)

NextMorph ==
    \/ \E o \in MorphOutcomes : StartAnimation("pixel_morph", o)
    \/ \E dt \in MorphDts : MorphUpdate(dt)
    \/ \E d \in MorphDurations : SetDuration(d)

SpecMorph == Init /\ [][NextMorph]_vars

-----------------------------------------------------------------------------
(* A run driven by the frame loop: update(dt) every frame with one dt *)

\* dt of 1 s and 3 s
RunDts == {One, 3 * One}

\* durations of 2 s and 3 s
RunDurations == {2 * One, 3 * One}

\* One frame: update(dt), with the dt of the run's earlier frames. dt/duration
\* is rounded to the fixed-point unit as the float division rounds it to the
\* float's; frames whose increment would round to nothing are not followed.
Tick(dt) ==
    /\ dt > 0
    /\ (call.op = "update" /\ call.was_animating) => dt = call.dt
    /\ FDiv(dt, duration) > 0
    /\ is_animating => updates < MaxTicks
    /\ UpdateCall(dt)
    /\ UNCHANGED state

\* set_duration between two runs
RunSetDuration(d) ==
    /\ ~is_animating
    /\ SetDuration(d)

NextRun ==
    \/ \E type \in AnimationType, o \in StartOutcomes : StartAnimation(type, o)
    \/ \E dt \in RunDts : Tick(dt)
    \/ \E d \in RunDurations : RunSetDuration(d)

\* The frame loop calls update on every frame
SpecRun == Init /\ [][NextRun]_vars /\ WF_vars(\E dt \in RunDts : Tick(dt))

-----------------------------------------------------------------------------
(* AnimationManager.draw called on its own, on a frame of 2 x 2 pixels *)

\* Positions of a particle in and around the frame (fixed-point)
DrawCoords == {-15, -10, -5, 0, 5, 10, 15, 20, 25}

\* A particle made by create_particles and moved to (x, y) by updates
DrawnParticle(x, y, rnd) ==
    [NewParticle([source_pos |-> <<0, 0>>, source_color |-> BLACK,
                  target_pos |-> <<1, 1>>, target_color |-> GREY], rnd)
        EXCEPT !.current_x = x, !.current_y = y]

InitDraw ==
    /\ \E x \in DrawCoords, y \in DrawCoords, rnd \in RandomDraws :
          particles = <<DrawnParticle(x, y, rnd)>>
    /\ animation_type = "wave_transform"
    /\ progress = 0
    /\ duration = 25 * One
    /\ is_animating = FALSE
    /\ center_point = <<0, 0>>
    /\ started = FALSE
    /\ updates = 0
    /\ pc = "call"
    /\ call = [op |-> "draw", width |-> 2, height |-> 2]
    /\ ret = [raised |-> "none"]
    /\ state = "drawing"

\* AnimationManager.draw: ret.draws[k] is what the k-th particle's draw did
DrawCall ==
    /\ pc = "call"
    /\ call.op = "draw"
    /\ ret' = [raised |-> "none",
               draws |-> [k \in 1..Len(particles) |->
                             DrawParticle(particles[k], call.width, call.height)]]
    /\ pc' = "return"
    /\ UNCHANGED <<manager, call, state>>

NextDraw == DrawCall

SpecDraw == InitDraw /\ [][NextDraw]_vars

-----------------------------------------------------------------------------
(* The progressive reveal of AnimalMaker.draw (src/src/animal_maker.py) *)

\* The value 1.0 of reveal_progress: ((progress - 0.3) / 0.7) ** 2 is the
\* quotient of (10 * progress - 3 * One) ** 2 by (7 * One) ** 2, kept exactly
\* by counting reveal_progress in units of 1 / RevealOne
RevealOne == (7 * One) * (7 * One)

\* Faulty variant of RevealActive: the reveal starts at 0.3
RevealActiveFrom(progress_) == 10 * progress_ >= 3 * One

\* if progress > 0.3
RevealActive(progress_) == 10 * progress_ > 3 * One

\* reveal_progress = ((progress - 0.3) / 0.7) ** 2
RevealProgress(progress_) == (10 * progress_ - 3 * One) * (10 * progress_ - 3 * One)

\* max_reveal_distance = 50 * (1 - reveal_progress), fixed-point pixels
MaxRevealDistance(reveal_progress) ==
    TDiv(50 * One * (RevealOne - reveal_progress), RevealOne)

\* Faulty variant of RevealRadius: the radius shrinks as the reveal proceeds
RevealRadiusShrinking(reveal_progress) ==
    Max(1, TDiv(5 * RevealOne - 3 * reveal_progress, RevealOne))

\* reveal_radius = max(1, int(2 + 3 * reveal_progress))
RevealRadius(reveal_progress) ==
    Max(1, TDiv(2 * RevealOne + 3 * reveal_progress, RevealOne))

\* alpha = min(255, int(255 * reveal_progress))
RevealAlpha(reveal_progress) == Min(255, TDiv(255 * reveal_progress, RevealOne))

\* Largest r with r * r <= n
ISqrt(n) == CHOOSE r \in 0..n : r * r <= n /\ (r + 1) * (r + 1) > n

\* distance_to_target = (dx*dx + dy*dy) ** 0.5, fixed-point pixels
DistanceToTarget(p) ==
    LET dx == p.target_x - p.current_x
        dy == p.target_y - p.current_y
    IN  ISqrt(dx * dx + dy * dy)

\* Faulty variant of RevealedBy: the whole square of side 2 * reveal_radius + 1
\* is revealed, without the test of the circular radius
RevealedBySquare(p, rect, image, reveal_progress) ==
    IF DistanceToTarget(p) < MaxRevealDistance(reveal_progress)
    THEN LET particle_x == PyInt(p.current_x - rect[1] * One)
             particle_y == PyInt(p.current_y - rect[2] * One)
             reveal_radius == RevealRadius(reveal_progress)
         IN  {q \in Pixels(image.width, image.height) :
                 LET dx == q[1] - particle_x
                     dy == q[2] - particle_y
                 IN  /\ -reveal_radius <= dx /\ dx <= reveal_radius
                     /\ -reveal_radius <= dy /\ dy <= reveal_radius}
    ELSE {}

\* The image pixels one particle reveals: none unless it is closer to its
\* target than max_reveal_distance, else the disc of reveal_radius around
\* its position relative to the image, cut to the image
RevealedBy(p, rect, image, reveal_progress) ==
    IF DistanceToTarget(p) < MaxRevealDistance(reveal_progress)
    THEN LET particle_x == PyInt(p.current_x - rect[1] * One)
             particle_y == PyInt(p.current_y - rect[2] * One)
             reveal_radius == RevealRadius(reveal_progress)
         IN  {q \in Pixels(image.width, image.height) :
                 LET dx == q[1] - particle_x
                     dy == q[2] - particle_y
                 IN  /\ -reveal_radius <= dx /\ dx <= reveal_radius
                     /\ -reveal_radius <= dy /\ dy <= reveal_radius
                     /\ dx * dx + dy * dy <= reveal_radius * reveal_radius}
    ELSE {}

\* The reveal of one frame drawn in the ANIMATING state: whether it is
\* active and, if so, its locals and the reveal surface that is blitted at
\* rect: the revealed pixels with the image's colour and the frame's alpha
RevealFrame(progress_, ps, rect, image) ==
    IF RevealActive(progress_)
    THEN LET reveal_progress == RevealProgress(progress_)
             revealed_pixels == UNION {RevealedBy(ps[k], rect, image, reveal_progress) :
                                          k \in 1..Len(ps)}
         IN  [active |-> TRUE,
              reveal_progress |-> reveal_progress,
              max_reveal_distance |-> MaxRevealDistance(reveal_progress),
              reveal_radius |-> RevealRadius(reveal_progress),
              revealed_pixels |-> revealed_pixels,
              reveal_surface |-> [q \in revealed_pixels |->
                                     RGB(image.at[q]) \o <<RevealAlpha(reveal_progress)>>]]
    ELSE [active |-> FALSE, revealed_pixels |-> {}, reveal_surface |-> <<>>]

\* The animal image: 5 x 5 pixels, shown at (2, 1)
RevealImages ==
    {Surface(5, 5, [q \in Pixels(5, 5) |-> c]) : c \in {OPAQUE_BLACK, OPAQUE_WHITE}}

\* Values of get_progress(): what update leaves from below 0 up to 1.0
RevealProgresses == (-4)..One

\* A particle with target (4, 3) standing dx pixels left of it
RevealParticle(dx, rnd) ==
    [NewParticle([source_pos |-> <<0, 0>>, source_color |-> BLACK,
                  target_pos |-> <<4, 3>>, target_color |-> GREY], rnd)
        EXCEPT !.current_x = (4 - dx) * One, !.current_y = 3 * One]

\* The particles of the frame: one, or two that share the target
RevealParticles ==
    LET offsets == {0, 1, 10, 30, 49, 60}
    IN  {<<RevealParticle(dx, rnd)>> : dx \in offsets, rnd \in RandomDraws}
        \cup {<<RevealParticle(d[1], rnd), RevealParticle(d[2], rnd)>> :
                 d \in offsets \X offsets, rnd \in RandomDraws}

InitReveal ==
    /\ particles \in RevealParticles
    /\ animation_type = "wave_transform"
    /\ progress \in RevealProgresses
    /\ duration = 25 * One
    /\ is_animating = (progress # One)
    /\ center_point = <<0, 0>>
    /\ started = TRUE
    /\ updates = 0
    /\ pc = "call"
    /\ \E image \in RevealImages :
          call = [op |-> "draw_reveal", rect |-> <<2, 1>>, image |-> image]
    /\ ret = [raised |-> "none"]
    /\ state = "drawing"

\* AnimalMaker.draw in the ANIMATING state, from get_progress() on
DrawRevealCall ==
    /\ pc = "call"
    /\ call.op = "draw_reveal"
    /\ ret' = RevealFrame(progress, particles, call.rect, call.image)
    /\ pc' = "return"
    /\ UNCHANGED <<manager, call, state>>

NextReveal == DrawRevealCall

SpecReveal == InitReveal /\ [][NextReveal]_vars

-----------------------------------------------------------------------------
(* Runs as the frame loop drives them: update and draw calls after a start *)

\* AnimationManager.draw(surface) on a frame of 2 x 2 pixels, between updates
DrawFrame ==
    /\ pc = "idle"
    /\ started
    /\ call' = [op |-> "draw", width |-> 2, height |-> 2]
    /\ ret' = [raised |-> "none",
               draws |-> [k \in 1..Len(particles) |->
                             DrawParticle(particles[k], 2, 2)]]
    /\ UNCHANGED <<manager, pc, state>>

NextFrame ==
    \/ \E type \in AnimationType, o \in StartOutcomes : StartAnimation(type, o)
    \/ \E dt \in DtValues : Update(dt)
    \/ DrawFrame

SpecFrame == Init /\ [][NextFrame]_vars

-----------------------------------------------------------------------------
(* Runs in which the caller gives a particle the fall_delay 1.0, the value
   that makes 1.0 - fall_delay zero *)

\* particle.fall_delay = 1.0, assigned by the caller to the k-th particle
SetFallDelay(k) ==
    /\ pc = "idle"
    /\ k \in 1..Len(particles)
    /\ particles[k].fall_delay # One
    /\ particles' = [particles EXCEPT ![k].fall_delay = One]
    /\ call' = [op |-> "set_fall_delay", index |-> k]
    /\ ret' = [raised |-> "none"]
    /\ UNCHANGED <<animation_type, progress, duration, is_animating, center_point,
                   started, updates, pc, state>>

NextDelay ==
    \/ \E type \in AnimationType, o \in StartOutcomes : StartAnimation(type, o)
    \/ \E k \in 1..MaxSrcLen : SetFallDelay(k)
    \/ \E dt \in DtValues : Update(dt)

SpecDelay == Init /\ [][NextDelay]_vars

-----------------------------------------------------------------------------
(* The application driver (src/src/animal_maker.py): AnimalMaker.run calls
   handle_events and update every frame. The canvas, the recogniser and the
   image manager are its environment: whether a drawing has been idle for 3
   seconds and was recognised, and which animation type the TAB key has
   selected, are inputs of the frame. *)

AppState == {"drawing", "processing", "animating", "displaying"}

\* The events that the state handling of handle_events tells apart
Events == {"space", "right_click", "other"}

\* The frame times clock.tick(60) / 1000.0 of the model
AppDts == {dt \in DtValues : dt > 0}

\* The loop of run goes on: no exception has left update
Running == ret.raised = "none"

\* self.state after handle_events has handled the event: SPACE resets from
\* DISPLAYING and DRAWING, the right button from DISPLAYING and ANIMATING
AfterEvent(event, state_) ==
    CASE event = "space" /\ state_ \in {"displaying", "drawing"} -> "drawing"
      [] event = "right_click" /\ state_ \in {"displaying", "animating"} -> "drawing"
      [] OTHER -> state_

\* handle_events with one event in the queue; reset_to_drawing does not
\* touch the animator
HandleEvents(event) ==
    /\ pc = "idle"
    /\ Running
    /\ state' = AfterEvent(event, state)
    /\ call' = [op |-> "handle_events", event |-> event]
    /\ ret' = [raised |-> "none"]
    /\ UNCHANGED <<manager, pc>>

\* update in the DRAWING state when nothing is processed, or start_processing
\* returns to DRAWING (no surface, no animal name, no bounds, no image), and
\* update in the PROCESSING and DISPLAYING states
UpdateWithoutAnimator ==
    /\ pc = "idle"
    /\ Running
    /\ state # "animating"
    /\ call' = [op |-> "app_update"]
    /\ ret' = [raised |-> "none"]
    /\ UNCHANGED <<manager, pc, state>>

\* update in the DRAWING state when the idle drawing is recognised:
\* start_processing, then AnimalMaker.start_animation, which sets ANIMATING
\* and calls the animator's start_animation with the selected type. An
\* exception of that call leaves update and run with the state set.
UpdateDrawing(type, o) ==
    /\ Running
    /\ state = "drawing"
    /\ StartAnimationCall(type, o)
    /\ state' = "animating"

\* Faulty variant of ShowsResult: the result is shown after the first frame
ShowsResultAlways(finished) == TRUE

\* if self.animator.is_finished()
ShowsResult(finished) == finished

\* update in the ANIMATING state
UpdateAnimating(dt) ==
    /\ Running
    /\ state = "animating"
    /\ is_animating => updates < MaxUpdates
    /\ UpdateCall(dt)
    /\ state' = IF ShowsResult(~is_animating') THEN "displaying" ELSE state

NextApp ==
    \/ \E event \in Events : HandleEvents(event)
    \/ UpdateWithoutAnimator
    \/ \E type \in AnimationType, o \in StartOutcomes : UpdateDrawing(type, o)
    \/ \E dt \in AppDts : UpdateAnimating(dt)

SpecApp == Init /\ [][NextApp]_vars

-----------------------------------------------------------------------------
(* Properties *)

\* Number of entries of the sequence s equal to x
Count(s, x) == Cardinality({i \in 1..Len(s) : s[i] = x})

\* A step of update that passed the early return: only those count in updates
Advancing == call'.op = "update" /\ updates' = updates + 1

(* C1: within a run, an update(dt) with dt > 0 never lowers progress; it
   sets progress to exactly 1.0 as soon as progress + dt/duration reaches or
   passes 1.0, and otherwise to that sum; is_finished() is true after the
   call exactly when the call made progress 1.0. *)
C1_ProgressMonotone ==
    [][(Advancing /\ call'.dt > 0) =>
          /\ progress' >= progress
          /\ IF progress * duration + call'.dt * One >= One * duration
             THEN progress' = One /\ is_finished'
             ELSE /\ progress' * duration = progress * duration + call'.dt * One
                  /\ ~is_finished']_vars

\* A run that accumulated progress over two updates and was clamped by the second
C1_Witness ==
    /\ call.op = "update"
    /\ call.was_animating
    /\ call.dt > 0
    /\ updates = 2
    /\ progress = One
    /\ is_finished

(* C2: in every state reachable by start and update(dt) calls with any dt,
   0 <= progress <= 1. *)
C2_ProgressInUnitInterval == 0 <= progress /\ progress <= One

(* C3 as claimed: in every reachable state, the freshly constructed manager
   included, is_finished() is true iff progress has reached 1.0 since the
   last start. *)
C3_FinishedIffReachedEnd == is_finished <=> (started /\ progress = One)

(* C3 amended: is_finished() is true iff start was never called or progress
   has reached 1.0 since the last start; is_animating is true exactly from a
   start until progress reaches 1.0. *)
C3_FinishedIffNotStartedOrReachedEnd ==
    /\ is_finished <=> (~started \/ progress = One)
    /\ is_animating <=> (started /\ progress # One)

\* A run that has been started and has reached 1.0
C3_Witness == started /\ progress = One /\ is_finished /\ call.op = "update"

(* C4: update(dt) called while is_animating is false changes neither
   progress, is_animating, animation_type nor any field of any particle. *)
C4_UpdateNoOpWhenNotAnimating ==
    [][(~is_animating /\ call'.op = "update") =>
          UNCHANGED <<particles, progress, is_animating, animation_type>>]_vars

\* update was called on a finished run that has particles
C4_Witness ==
    /\ call.op = "update"
    /\ ~call.was_animating
    /\ started
    /\ Len(particles) > 0

(* C5: after every start_animation, also one made while the previous run is
   in flight, progress = 0, is_animating is true, animation_type is the
   requested type, and the particle list holds the particles this call
   created and no other: as many as it created, each at its start position,
   in its source colour, with age 0 and a target among this call's target
   samples. *)
C5_StartDiscardsPreviousRun ==
    call.op = "start_animation" =>
        /\ progress = 0
        /\ is_animating
        /\ animation_type = call.animation_type
        /\ Len(particles) = ret.created
        /\ \A k \in 1..Len(particles) :
              /\ particles[k].age = 0
              /\ particles[k].current_x = particles[k].start_x
              /\ particles[k].current_y = particles[k].start_y
              /\ particles[k].color = particles[k].source_color
              /\ \E i \in 1..Len(ret.target_pixels) :
                    /\ particles[k].target_x = ret.target_pixels[i].pos[1] * One
                    /\ particles[k].target_y = ret.target_pixels[i].pos[2] * One
                    /\ particles[k].target_color = ret.target_pixels[i].color

\* start_animation called while a run with particles was in flight, creating particles again
C5_Witness ==
    /\ call.op = "start_animation"
    /\ call.in_flight
    /\ Len(particles) > 0

(* C6: if the source yields no ink samples or the target yields no shape
   samples, start_animation raises no exception and leaves zero particles. *)
C6_EmptySamplesNoException ==
    (call.op = "start_animation" /\ (Len(ret.source_pixels) = 0 \/ Len(ret.all_pixels) = 0)) =>
        (ret.raised = "none" /\ Len(particles) = 0)

\* create_particles has returned from a call with non-empty lists
Solved ==
    /\ pc = "return"
    /\ call.op = "create_particles"
    /\ Len(call.source_pixels) > 0
    /\ Len(call.target_pixels) > 0

(* C7: for every call of create_particles with non-empty lists, no target
   index is paired with two particles, every entry of the equalized source
   list receives exactly one target, and the number of particles created is
   the equalized length. *)
C7_AssignmentValid ==
    Solved =>
        LET a == ret.assignments
            eq == ret.source_pixels
            tg == ret.target_pixels_sorted
        IN  /\ Len(particles) = Len(eq)
            /\ Len(a) = Len(eq)
            /\ \A k \in 1..Len(a) :
                  /\ a[k].source_idx = k
                  /\ a[k].source_pos = eq[k].pos
                  /\ a[k].target_idx \in 1..Len(tg)
                  /\ particles[k].target_x = tg[a[k].target_idx].pos[1] * One
                  /\ particles[k].target_y = tg[a[k].target_idx].pos[2] * One
            /\ \A j, k \in 1..Len(a) : j # k => a[j].target_idx # a[k].target_idx

\* Two or more particles, one of which lost its nearest target to an earlier one
C7_Witness ==
    /\ Solved
    /\ Len(particles) >= 2
    /\ \E k \in 1..Len(ret.assignments), i \in 1..Len(ret.target_pixels_sorted) :
          Dist2(ret.source_pixels[k].pos, ret.target_pixels_sorted[i].pos)
              < Dist2(ret.source_pixels[k].pos, ret.assignments[k].target_pos)

(* C8: equalization of s >= 1 source samples against t >= 1 target samples:
   for s > t the source becomes its first t entries, for s <= t a list of
   length t whose i-th entry (from 0) is the original entry i mod s; both
   lists have length t afterwards and the target list keeps all its entries. *)
C8_Equalization ==
    Solved =>
        LET s == Len(call.source_pixels)
            t == Len(call.target_pixels)
            eq == ret.source_pixels
            tg == ret.target_pixels_sorted
        IN  /\ Len(eq) = t
            /\ Len(tg) = t
            /\ s > t => eq = SubSeq(call.source_pixels, 1, t)
            /\ s <= t => \A i \in 0..(t - 1) : eq[i + 1] = call.source_pixels[(i % s) + 1]
            /\ \A x \in Range(call.target_pixels) \cup Range(tg) :
                  Count(tg, x) = Count(call.target_pixels, x)

\* The case s = 5, t = 12: the source entries 0,1,2,3,4,0,1,2,3,4,0,1
C8_Witness ==
    /\ Solved
    /\ Len(call.source_pixels) = 5
    /\ Len(call.target_pixels) = 12
    /\ [i \in 1..Len(ret.source_pixels) |-> ret.source_pixels[i].pos[1]]
          = <<0, 1, 2, 3, 4, 0, 1, 2, 3, 4, 0, 1>>

(* C9: the solver takes the source samples in list order and gives each the
   target of least squared distance among the targets no earlier source
   sample took; among several such targets it takes the first in the target
   list sorted by (y, then x). *)
C9_GreedyNearestFirst ==
    Solved =>
        LET a == ret.assignments
            eq == ret.source_pixels
            tg == ret.target_pixels_sorted
        IN  /\ \A i, j \in 1..Len(tg) :
                  i < j => \/ tg[i].pos[2] < tg[j].pos[2]
                           \/ tg[i].pos[2] = tg[j].pos[2] /\ tg[i].pos[1] <= tg[j].pos[1]
            /\ \A k \in 1..Len(a) :
                  LET free == (1..Len(tg)) \ {a[j].target_idx : j \in 1..(k - 1)}
                      mine == a[k].target_idx
                  IN  /\ a[k].source_idx = k
                      /\ mine \in free
                      /\ \A i \in free :
                            \/ Dist2(eq[k].pos, tg[mine].pos) < Dist2(eq[k].pos, tg[i].pos)
                            \/ /\ Dist2(eq[k].pos, tg[mine].pos) = Dist2(eq[k].pos, tg[i].pos)
                               /\ mine <= i

\* A source sample with two free targets at the same least distance
C9_Witness ==
    /\ Solved
    /\ \E k \in 1..Len(ret.assignments) :
          \E i \in (1..Len(ret.target_pixels_sorted))
                    \ {ret.assignments[j].target_idx : j \in 1..k} :
              Dist2(ret.source_pixels[k].pos, ret.target_pixels_sorted[i].pos)
                  = Dist2(ret.source_pixels[k].pos, ret.assignments[k].target_pos)

(* C10: extract_pixels_for_shape with candidate list c and num_pixels n >= 1:
   for empty c the result is empty; otherwise it has exactly n entries, which
   for len(c) > n are c[0], c[k], c[2k], ... (k = len(c) div n) cut to n, and
   for len(c) <= n are all of c in scan order followed by members of c. *)
C10_Resample ==
    (pc = "return" /\ call.op = "extract_pixels_for_shape" /\ call.num_pixels >= 1) =>
        LET c == ret.all_pixels
            n == call.num_pixels
            r == ret.pixels
        IN  /\ ret.raised = "none"
            /\ Len(c) = 0 => Len(r) = 0
            /\ Len(c) > 0 => Len(r) = n
            /\ Len(c) > n => \A i \in 0..(n - 1) : r[i + 1] = c[i * (Len(c) \div n) + 1]
            /\ (0 < Len(c) /\ Len(c) <= n) =>
                  /\ SubSeq(r, 1, Len(c)) = c
                  /\ \A i \in (Len(c) + 1)..n : r[i] \in Range(c)

\* Five candidates resampled to two: every second one, cut from three to two
C10_Witness ==
    /\ pc = "return"
    /\ call.op = "extract_pixels_for_shape"
    /\ call.num_pixels = 2
    /\ Len(ret.all_pixels) = 5
    /\ Len(ret.pixels) = 2

\* The state right after an update call that passed the early return
Updated == call.op = "update" /\ call.was_animating

(* C11: in the update call that makes progress 1.0, dispatched as pixel_morph
   or wave_transform, every particle ends exactly on its target position,
   whatever its start position and the dt values before. *)
C11_MorphWaveArrive ==
    (Updated /\ progress = One /\ animation_type \in {"pixel_morph", "wave_transform"}) =>
        \A k \in 1..Len(particles) :
            /\ particles[k].current_x = particles[k].target_x
            /\ particles[k].current_y = particles[k].target_y

\* A wave_transform run of two particles finished by its second update, one
\* particle having started 1.5 pixels left of its source pixel
C11_Witness ==
    /\ Updated
    /\ progress = One
    /\ animation_type = "wave_transform"
    /\ updates = 2
    /\ Len(particles) = 2
    /\ \E k \in 1..Len(particles) :
          /\ particles[k].start_x % One # 0
          /\ particles[k].start_y # particles[k].target_y
          /\ particles[k].current_x = particles[k].target_x

(* C12: once a run has reached progress 1.0, every particle's colour is its
   target colour, component by component, for every animation type and
   every fall_delay. *)
C12_ColourConverged ==
    (started /\ progress = One) =>
        \A k \in 1..Len(particles) : particles[k].color = particles[k].target_color

\* A finished run with a particle of the longest fall_delay whose source and
\* target colours differ
C12_Witness ==
    /\ started
    /\ progress = One
    /\ \E k \in 1..Len(particles) :
          /\ particles[k].fall_delay = (4 * One) \div 10
          /\ particles[k].source_color # particles[k].target_color
          /\ particles[k].color = particles[k].target_color

(* C17: while a run is in flight, no call other than the next start_animation
   changes the animation type that update dispatches on. *)
C17_TypeFixedPerRun ==
    [][(is_animating /\ call'.op # "start_animation") =>
          animation_type' = animation_type]_vars

(* C20: after every update call that passed the early return, every
   particle's colour is the component-wise blend of source and target colour
   with factor clamp((progress - fall_delay) / (1 - fall_delay), 0, 1), so
   it is the source colour while progress <= fall_delay. *)
C20_ColourIsGlobalBlend ==
    Updated =>
        \A k \in 1..Len(particles) :
            LET p == particles[k]
                den == One - p.fall_delay
                raw == progress - p.fall_delay
                num == IF raw < 0 THEN 0 ELSE IF raw > den THEN den ELSE raw
            IN  /\ \A c \in 1..3 :
                      p.color[c] = (p.source_color[c] * (den - num) + p.target_color[c] * num) \div den
                /\ progress <= p.fall_delay => p.color = p.source_color

(* C13: pixel_morph end to end: after a start on a source with n >= 1 ink
   samples and a target with n opaque pixels, one update(dt) with
   dt >= duration gives progress 1.0, is_finished() true, and n particles
   that stand on the n target positions, one on each. *)
C13_MorphEndToEnd ==
    [][(/\ call.op = "start_animation"
        /\ ret.raised = "none"
        /\ animation_type = "pixel_morph"
        /\ Len(ret.source_pixels) >= 1
        /\ Len(ret.all_pixels) = Len(ret.source_pixels)
        /\ call'.op = "update"
        /\ call'.dt >= duration)
       => (/\ progress' = One
           /\ is_finished'
           /\ Len(particles') = Len(ret.all_pixels)
           /\ \A i \in 1..Len(ret.all_pixels) :
                 Cardinality({k \in 1..Len(particles') :
                     /\ particles'[k].current_x = ret.all_pixels[i].pos[1] * One
                     /\ particles'[k].current_y = ret.all_pixels[i].pos[2] * One}) = 1)]_vars

\* The case n = 4, duration = 1.0: one update(1.0) has put the four particles
\* on the four target pixels
C13_Witness ==
    /\ Updated
    /\ updates = 1
    /\ call.dt = One
    /\ duration = One
    /\ animation_type = "pixel_morph"
    /\ progress = One
    /\ is_finished
    /\ Len(particles) = 4
    /\ \A x \in 2..3, y \in 1..2 :
          \E k \in 1..4 : particles[k].current_x = x * One /\ particles[k].current_y = y * One

(* C14: after a start, when update is called with one fixed dt > 0, the run
   is complete (progress 1.0, is_finished() true) after at most
   ceil(duration / dt) calls, with or without particles. *)
C14_CompletesWithinCeil ==
    (Updated /\ call.dt > 0 /\ updates * call.dt >= duration) =>
        (progress = One /\ is_finished)

(* C15: a particle is drawn, at the pixel floor(current position), exactly
   when that pixel is inside the frame; a particle whose floored position is
   outside the frame, such as one with a coordinate in (-1, 0), writes
   nothing and raises no error. *)
C15_DrawnIffFloorInFrame ==
    (pc = "return" /\ call.op = "draw") =>
        /\ ret.raised = "none"
        /\ \A k \in 1..Len(particles) :
              LET fx == particles[k].current_x \div One
                  fy == particles[k].current_y \div One
                  inside == 0 <= fx /\ fx < call.width /\ 0 <= fy /\ fy < call.height
              IN  /\ ret.draws[k].drawn <=> inside
                  /\ inside => ret.draws[k].at = <<fx, fy>> /\ <<fx, fy>> \in ret.draws[k].written
                  /\ ~inside => ret.draws[k].written = {}

\* A frame of the reveal has been rendered
Revealed == pc = "return" /\ call.op = "draw_reveal"

(* C16: the reveal is active exactly while progress > 0.3; a frame rendered
   with progress <= 0.3 composites no pixel of the target bitmap, and an
   active reveal has 0 < reveal_progress <= 1, reveal_progress being
   ((progress - 0.3) / 0.7) ** 2. *)
C16_RevealAfterThreeTenths ==
    Revealed =>
        /\ ret.active <=> 10 * progress > 3 * One
        /\ 10 * progress <= 3 * One => ret.revealed_pixels = {} /\ ret.reveal_surface = <<>>
        /\ ret.active =>
              /\ 0 < ret.reveal_progress
              /\ ret.reveal_progress <= RevealOne
              /\ ret.reveal_progress * 49 * One * One
                    = RevealOne * (10 * progress - 3 * One) * (10 * progress - 3 * One)

\* A frame at progress 0.4 that composites pixels of the image
C16_Witness ==
    /\ Revealed
    /\ progress = (4 * One) \div 10
    /\ ret.active
    /\ ret.revealed_pixels # {}

(* C18: from the reveal_progress of a rendered frame to any larger one up to
   1.0 (sampled at 0, 0.5, 1.0 and the values frames take) the reveal radius
   does not decrease and max_reveal_distance does not increase, and from any
   smaller one the radius does not increase and the distance does not
   decrease. *)
C18_RevealMonotone ==
    (Revealed /\ ret.active) =>
        \A q \in {0, RevealOne \div 2, RevealOne} \cup
                  {RevealProgress(x) : x \in {y \in RevealProgresses : RevealActive(y)}} :
            /\ q >= ret.reveal_progress =>
                  /\ RevealRadius(q) >= ret.reveal_radius
                  /\ MaxRevealDistance(q) <= ret.max_reveal_distance
            /\ q <= ret.reveal_progress =>
                  /\ RevealRadius(q) <= ret.reveal_radius
                  /\ MaxRevealDistance(q) >= ret.max_reveal_distance

\* A frame half way through the reveal: radius 3 between 2 and 5, distance
\* between 50 and 0 pixels
C18_Witness ==
    /\ Revealed
    /\ ret.active
    /\ 0 < ret.reveal_progress /\ ret.reveal_progress < RevealOne
    /\ RevealRadius(0) = 2 /\ ret.reveal_radius = 3 /\ RevealRadius(RevealOne) = 5
    /\ MaxRevealDistance(0) = 50 * One
    /\ 0 < ret.max_reveal_distance /\ ret.max_reveal_distance < 50 * One
    /\ MaxRevealDistance(RevealOne) = 0

(* C19: extract_pixels_for_shape keeps a pixel of the target bitmap iff the
   bitmap has an alpha channel and the pixel's alpha > 128, or the bitmap has
   no alpha channel and R + G + B < 700 (stated of the calls that return). *)
C19_KeptIffAlphaOrDark ==
    (pc = "return" /\ call.op = "extract_pixels_for_shape" /\ ret.raised = "none") =>
        \A q \in Pixels(call.surface.width, call.surface.height) :
            LET color == call.surface.at[q]
                world_pos == <<call.offset[1] + q[1], call.offset[2] + q[2]>>
                kept == \E i \in 1..Len(ret.all_pixels) : ret.all_pixels[i].pos = world_pos
            IN  kept <=> \/ call.alpha_channel /\ color[4] > 128
                         \/ ~call.alpha_channel /\ color[1] + color[2] + color[3] < 700

\* The fields a particle is given when it is created
CreationFields(p) ==
    <<p.start_x, p.start_y, p.target_x, p.target_y, p.source_color,
      p.target_color, p.size, p.fall_delay>>

(* C21: update and draw never change a particle's creation-time fields: after
   every update or draw call the run has the same particles, each with the
   start position, target position, source colour, target colour, size and
   fall delay it had before the call. *)
C21_CreationFieldsKept ==
    [][call'.op \in {"update", "draw"} =>
          /\ Len(particles') = Len(particles)
          /\ \A k \in 1..Len(particles) :
                CreationFields(particles'[k]) = CreationFields(particles[k])]_vars

\* A frame drawn after two updates of a run whose particle has moved
C21_Witness ==
    /\ call.op = "draw"
    /\ updates = 2
    /\ \E k \in 1..Len(particles) :
          /\ particles[k].current_x # particles[k].start_x
          /\ particles[k].color # particles[k].source_color

(* C22: a particle whose fall_delay makes 1 - fall_delay zero is treated as
   already past its delay: an update with dt > 0 that passed the early return
   raises nothing, gives the particle under sand_fall the velocity change of the
   attraction branch (0.35 * gravity * dt), and leaves it with the blend
   factor 1, its colour the target colour. *)
C22_ZeroDenominatorPastDelay ==
    [][(call'.op = "update" /\ call'.was_animating /\ call'.dt > 0) =>
          \A k \in 1..Len(particles) :
             particles[k].fall_delay = One =>
                /\ ret'.raised = "none"
                /\ animation_type = "sand_fall" =>
                      particles'[k].velocity_y - particles[k].velocity_y
                         = FMul(MulRat(Gravity, 35, 100), call'.dt)
                /\ particles'[k].color = particles[k].target_color]_vars

(* C23: in a frame with the reveal active, the revealed pixels are exactly
   the pixels of the target image (0 <= x < width, 0 <= y < height) at an
   offset (dx, dy) with dx^2 + dy^2 <= radius^2 from the image-relative
   position of some particle whose distance to its target is below
   max_reveal_distance; the reveal surface has one entry for each of them,
   also for a pixel that several particles mark. *)
C23_RevealedPixelsAreDiscs ==
    (Revealed /\ ret.active) =>
        /\ ret.revealed_pixels =
              {q \in Pixels(call.image.width, call.image.height) :
                  \E k \in 1..Len(particles) :
                     LET p == particles[k]
                         tx == p.target_x - p.current_x
                         ty == p.target_y - p.current_y
                         dx == q[1] - PyInt(p.current_x - call.rect[1] * One)
                         dy == q[2] - PyInt(p.current_y - call.rect[2] * One)
                     IN  /\ tx * tx + ty * ty
                               < ret.max_reveal_distance * ret.max_reveal_distance
                         /\ dx * dx + dy * dy <= ret.reveal_radius * ret.reveal_radius}
        /\ DOMAIN ret.reveal_surface = ret.revealed_pixels

\* A frame where two particles mark overlapping discs, neither within the
\* other, that leave a corner of the image unrevealed
C23_Witness ==
    /\ Revealed
    /\ ret.active
    /\ Len(particles) = 2
    /\ ret.reveal_radius = 2
    /\ LET first == RevealedBy(particles[1], call.rect, call.image, ret.reveal_progress)
           second == RevealedBy(particles[2], call.rect, call.image, ret.reveal_progress)
       IN  /\ first \cap second # {}
           /\ first \ second # {}
           /\ second \ first # {}
           /\ ret.revealed_pixels = first \cup second
           /\ <<0, 0>> \notin ret.revealed_pixels

\* The branch of update_sand_fall a particle took in a step, read off the
\* change of its velocity_y: gravity * dt in free fall, 0.35 * gravity * dt
\* under attraction
TookFreeFall(k) ==
    particles'[k].velocity_y - particles[k].velocity_y = FMul(Gravity, call'.dt)

TookAttraction(k) ==
    particles'[k].velocity_y - particles[k].velocity_y
        = FMul(MulRat(Gravity, 35, 100), call'.dt)

(* C24: in a sand_fall run, in every update that passed the early return a
   particle takes the free-fall branch iff progress < fall_delay and the
   attraction branch otherwise, with adjusted_progress in [0, 1] there; and a
   particle that took the attraction branch in the run's previous update
   does not take the free-fall branch. *)
C24_FreeFallThenAttraction ==
    [][(call'.op = "update" /\ call'.was_animating /\ animation_type = "sand_fall") =>
          \A k \in 1..Len(particles) :
             LET fall_delay == particles[k].fall_delay
             IN  /\ TookFreeFall(k) <=> progress' < fall_delay
                 /\ TookAttraction(k) <=> ~(progress' < fall_delay)
                 /\ TookAttraction(k) =>
                       /\ 0 <= DelayQuotient(progress', fall_delay)
                       /\ DelayQuotient(progress', fall_delay) <= One
                 /\ (updates >= 1 /\ ~(progress < fall_delay)) => ~TookFreeFall(k)]_vars

\* The one-to-one assignments of n sources to n targets
Bijections(n) == {f \in [1..n -> 1..n] : \A i, j \in 1..n : i # j => f[i] # f[j]}

\* Sum of the squared distances of the pairs (eq[k], tg[f[k]])
Cost(eq, tg, f) == SeqSum([k \in 1..Len(eq) |-> Dist2(eq[k].pos, tg[f[k]].pos)])

(* C25: create_particles makes an optimal source->target assignment: the sum
   of squared distances over the chosen pairs is minimal among all one-to-one
   assignments of the equalized source list to the target list (stated for
   target lists of at most MaxTgtLen samples). *)
C25_AssignmentOptimal ==
    (Solved /\ Len(call.target_pixels) <= MaxTgtLen) =>
        LET eq == ret.source_pixels
            tg == ret.target_pixels_sorted
            chosen == [k \in 1..Len(eq) |-> ret.assignments[k].target_idx]
        IN  \A f \in Bijections(Len(tg)) : Cost(eq, tg, chosen) <= Cost(eq, tg, f)

\* The (source sample, target sample) pairs of a list of assignments
Pairing(assignments) ==
    {<<Sample(assignments[k].source_pos, assignments[k].source_color),
       Sample(assignments[k].target_pos, assignments[k].target_color)>> :
        k \in 1..Len(assignments)}

\* The list s reordered by the one-to-one map f of its indices
Permuted(s, f) == [i \in 1..Len(s) |-> s[f[i]]]

(* C26: for target samples at pairwise distinct positions, the set of
   (source sample, target sample) pairs the solver produces does not depend
   on the order of the target list: every permutation of the target list
   passed in yields the pairing of the call (stated for target lists of at
   most MaxTgtLen samples). *)
C26_TargetOrderIrrelevant ==
    (/\ Solved
     /\ Len(call.target_pixels) <= MaxTgtLen
     /\ \A i, j \in 1..Len(call.target_pixels) :
           i # j => call.target_pixels[i].pos # call.target_pixels[j].pos) =>
        \A f \in Bijections(Len(call.target_pixels)) :
            Pairing(Assign(call.source_pixels, Permuted(call.target_pixels, f)).assignments)
                = Pairing(ret.assignments)

\* A call whose target list is not passed in sorted order and in which a
\* source sample has two free targets at the same least distance
C26_Witness ==
    /\ Solved
    /\ Len(call.target_pixels) >= 2
    /\ call.target_pixels # ret.target_pixels_sorted
    /\ \A i, j \in 1..Len(call.target_pixels) :
          i # j => call.target_pixels[i].pos # call.target_pixels[j].pos
    /\ \E i, j \in 1..Len(call.target_pixels) :
          /\ i # j
          /\ ret.assignments[1].target_pos = call.target_pixels[j].pos
          /\ Dist2(ret.source_pixels[1].pos, call.target_pixels[i].pos)
                = Dist2(ret.source_pixels[1].pos, call.target_pixels[j].pos)

(* C27: after every start in which the source yields s >= 1 ink samples and
   the target bitmap has at least one candidate pixel, the target sample list
   handed to create_particles has length s, equalization leaves the source
   list as it is, and the run has exactly s particles; after a start whose
   target has no candidate pixel the run has no particle. *)
C27_TargetListHasSourceLength ==
    call.op = "start_animation" =>
        LET s == Len(ret.source_pixels)
            candidates == Len(ret.all_pixels)
        IN  /\ (s >= 1 /\ candidates >= 1) =>
                  /\ Len(ret.target_pixels) = s
                  /\ Equalize(ret.source_pixels, Len(ret.target_pixels)) = ret.source_pixels
                  /\ ret.created = s
                  /\ Len(particles) = s
            /\ candidates = 0 => Len(particles) = 0

\* A start with 3 ink samples on a target of 2 candidates, padded to 3
C27_Witness ==
    /\ call.op = "start_animation"
    /\ Len(ret.source_pixels) = 3
    /\ Len(ret.all_pixels) = 2
    /\ Len(ret.target_pixels) = 3
    /\ Len(particles) = 3

(* C28: in the update call that makes progress 1.0 in a particle_swirl run,
   every particle's current position is exactly its target position,
   whatever its age and the centre point. *)
C28_SwirlArrives ==
    (Updated /\ progress = One /\ animation_type = "particle_swirl") =>
        \A k \in 1..Len(particles) :
            /\ particles[k].current_x = particles[k].target_x
            /\ particles[k].current_y = particles[k].target_y

\* A swirl run finished by its second update, with an aged particle whose
\* target is not the centre point
C28_Witness ==
    /\ Updated
    /\ progress = One
    /\ animation_type = "particle_swirl"
    /\ updates = 2
    /\ \E k \in 1..Len(particles) :
          /\ particles[k].age > 0
          /\ particles[k].current_x = particles[k].target_x
          /\ particles[k].target_x # center_point[1] * One

(* C29: in a sand_fall run, in every update that passed the early return the
   colour a particle ends the call with is the colour update_sand_fall left
   it with (the global blend changes nothing), and it is the colour the same
   call gives a particle of the same state under each other type. *)
C29_SandFallColourAsOthers ==
    [][(call'.op = "update" /\ call'.was_animating /\ animation_type = "sand_fall") =>
          \A k \in 1..Len(particles) :
             /\ particles'[k].color
                   = UpdateSandFall(particles[k], progress', call'.dt).color
             /\ \A type \in AnimationType :
                   particles'[k].color
                      = UpdateParticle(particles[k], type, progress', call'.dt,
                                       center_point).color]_vars

(* C30: in the application driver the animator is updated only while the
   state is ANIMATING; the state becomes DISPLAYING in exactly the frame
   update in which is_finished() becomes true, so DISPLAYING is entered from
   no other state and never with progress < 1.0; and while the state is not
   ANIMATING, as after a reset to DRAWING during an animation, progress stays
   as it is until the next start_animation sets it to 0. *)
C30_DisplayingWhenFinished ==
    [][/\ call'.op = "update" => state = "animating"
       /\ (state = "animating" /\ call'.op = "update") =>
             (state' = "displaying" <=> (is_animating /\ ~is_animating'))
       /\ (state # "displaying" /\ state' = "displaying") =>
             /\ state = "animating"
             /\ call'.op = "update"
             /\ is_animating /\ ~is_animating'
       /\ state' = "displaying" => progress' = One
       /\ state # "animating" =>
             \/ progress' = progress /\ is_animating' = is_animating
             \/ call'.op = "start_animation" /\ progress' = 0]_vars

\* The result of a run with particles is shown after its second update
C30_Witness ==
    /\ state = "displaying"
    /\ call.op = "update"
    /\ updates = 2
    /\ progress = One
    /\ Len(particles) > 0

=============================================================================
